---- MODULE Spec2Model ----
(***************************************************************************)
(* Contact-Book: the authentication service (src/src/services/auth.py),    *)
(* the user repository (src/src/repository/users.py), the /users routes    *)
(* (src/src/routes/users.py), the role gate (src/src/services/roles.py)    *)
(* and the contact routes and repository (src/src/routes/contacts.py,      *)
(* src/src/repository/contacts.py), modelled as a state machine.           *)
(*                                                                         *)
(* Time is the UTC wall clock in whole seconds (the unit of the JWT        *)
(* NumericDate claims iat and exp and of the Redis EXPIRE argument).       *)
(***************************************************************************)
EXTENDS Integers, Sequences, FiniteSets, TLC

\* ------------------------------------------------------------------------
\* Bounds of the model
\* ------------------------------------------------------------------------
MaxTicks == 2          \* how many times the clock advances in a behaviour
MaxMutations == 1      \* how many user-store mutations happen in a behaviour
MaxAvatar == 1         \* distinct uploaded avatar versions
ShortTTL == 60         \* the expires_delta a caller passes, in seconds
MaxAllowed == 3        \* the longest allow-list a RoleAccess is constructed with
MaxContacts == 2       \* rows of table contacts

\* ------------------------------------------------------------------------
\* Program constants
\* ------------------------------------------------------------------------
CacheTTLShort == 300 - 60
CacheTTL == 300                      \* cache.expire(user_hash, 300)
AccessDefaultTTL == 900              \* timedelta(minutes=15)
RefreshDefaultTTL == 604800          \* timedelta(days=7)
EmailTokenTTL == 172800              \* timedelta(days=2)

HTTP_200 == 200
HTTP_201 == 201
HTTP_204 == 204
HTTP_400 == 400
HTTP_401 == 401
HTTP_403 == 403
HTTP_404 == 404
HTTP_422 == 422
HTTP_500 == 500
NoStatus == 0

SECRET_KEY == "secret"
OtherKey == "attacker"
None == "<None>"
Emails == {"a@x.com", "b@x.com"}

RefreshScopeName == "refresh_token"
AccessScopeMutant == "refresh_token"
AccessScopeName == "access_token"

CredentialsDetail == "Could not validate credentials"
InvalidScopeDetail == "Invalid scope for token"
EmailTokenDetail == "Invalid token for email verification"
ServerErrorDetail == "Internal Server Error"
ForbiddenDetail == "FORBIDDEN"
ContactsNotFoundDetail == "Contacts not found"
ContactNotFoundDetail == "Contact not found"
BirthdayDetail == "Birthday must be in the past"
DatabaseErrorDetail == "Database error"
NoDetail == ""

\* entity/models.py: the members of enum Role
Roles == {"admin", "moderator", "user"}

\* routes/contacts.py line 15: RoleAccess([Role.admin, Role.moderator])
access_to_route_all == <<"admin", "moderator">>

\* datetime.date
Date(y, m, d) == [year |-> y, month |-> m, day |-> d]

\* ------------------------------------------------------------------------
\* Token codec (python-jose as called by Auth)
\* ------------------------------------------------------------------------

\* dict.update: the keys of u override those of d
DictUpdate(d, u) ==
  [k \in (DOMAIN d) \cup (DOMAIN u) |-> IF k \in DOMAIN u THEN u[k] ELSE d[k]]

\* Optional[float] expires_delta: <<>> is None, <<n>> is the number n
Truthy(expires_delta) == expires_delta # <<>> /\ expires_delta[1] # 0

\* jwt.encode: the claim set together with a signature over it
jwt_encode(claims, key) == [claims |-> claims, sig |-> [key |-> key, over |-> claims]]

AccessExpire(expires_delta, t) ==
  IF Truthy(expires_delta) THEN t + expires_delta[1] ELSE t + AccessDefaultTTL

RefreshExpire(expires_delta, t) ==
  IF Truthy(expires_delta) THEN t + expires_delta[1] ELSE t + RefreshDefaultTTL

create_access_token_mutant(data, expires_delta, t) ==
  jwt_encode(DictUpdate([iat |-> t, exp |-> AccessExpire(expires_delta, t),
                         scope |-> AccessScopeName], data), SECRET_KEY)
create_access_token(data, expires_delta, t) ==
  jwt_encode(DictUpdate(data, [iat |-> t, exp |-> AccessExpire(expires_delta, t),
                               scope |-> AccessScopeName]), SECRET_KEY)

create_refresh_token_mutant(data, expires_delta, t) ==
  jwt_encode(DictUpdate([iat |-> t, exp |-> RefreshExpire(expires_delta, t),
                         scope |-> RefreshScopeName], data), SECRET_KEY)
create_refresh_token(data, expires_delta, t) ==
  jwt_encode(DictUpdate(data, [iat |-> t, exp |-> RefreshExpire(expires_delta, t),
                               scope |-> RefreshScopeName]), SECRET_KEY)

create_email_token(data, t) ==
  jwt_encode(DictUpdate(data, [iat |-> t, exp |-> t + EmailTokenTTL]), SECRET_KEY)

\* the exp check of jwt.decode: no leeway is passed, so the default 0 applies
ExpiredMutant(exp, t) == exp + 1 < t
Expired(exp, t) == exp < t

SignatureOk(token) == token.sig.key = SECRET_KEY /\ token.sig.over = token.claims

\* jwt.decode(token, SECRET_KEY, algorithms=[ALGORITHM]) raises JWTError on a
\* bad signature, an expired exp claim, or a sub claim that is not a string
JWTError(token, t) ==
  \/ ~SignatureOk(token)
  \/ "exp" \in DOMAIN token.claims /\ Expired(token.claims["exp"], t)
  \/ "sub" \in DOMAIN token.claims /\ token.claims["sub"] = None

Outcome(code, detail, email) == [code |-> code, detail |-> detail, email |-> email]

\* the try block of get_current_user (lines 143-153): the subject, a 401, or
\* an uncaught KeyError that the framework turns into a 500
DecodeAccess(token, t) ==
  IF JWTError(token, t) THEN Outcome(HTTP_401, CredentialsDetail, None)
  ELSE IF "scope" \notin DOMAIN token.claims THEN Outcome(HTTP_500, ServerErrorDetail, None)
  ELSE IF token.claims["scope"] = AccessScopeName
       THEN IF "sub" \notin DOMAIN token.claims THEN Outcome(HTTP_500, ServerErrorDetail, None)
            ELSE IF token.claims["sub"] = None THEN Outcome(HTTP_401, CredentialsDetail, None)
            ELSE Outcome(HTTP_200, NoDetail, token.claims["sub"])
       ELSE Outcome(HTTP_401, CredentialsDetail, None)

decode_refresh_token(token, t) ==
  IF JWTError(token, t) THEN Outcome(HTTP_401, CredentialsDetail, None)
  ELSE IF "scope" \notin DOMAIN token.claims THEN Outcome(HTTP_500, ServerErrorDetail, None)
  ELSE IF token.claims["scope"] = RefreshScopeName
       THEN IF "sub" \notin DOMAIN token.claims THEN Outcome(HTTP_500, ServerErrorDetail, None)
            ELSE Outcome(HTTP_200, NoDetail, token.claims["sub"])
       ELSE Outcome(HTTP_401, InvalidScopeDetail, None)

get_email_from_token(token, t) ==
  IF JWTError(token, t) THEN Outcome(HTTP_422, EmailTokenDetail, None)
  ELSE IF "sub" \notin DOMAIN token.claims THEN Outcome(HTTP_500, ServerErrorDetail, None)
  ELSE Outcome(HTTP_200, NoDetail, token.claims["sub"])

\* ------------------------------------------------------------------------
\* The user store (table users) and the serialised snapshots
\* ------------------------------------------------------------------------
Slots == {1, 2}                      \* the request tasks of a behaviour
TickSteps == {1, 299}                \* by how much the clock advances in one step
RefreshTokens == {"rt"}

NoUser == [email |-> None]

\* a row of table users, with the column defaults of the model
User(email, avatar, confirmed, refresh_token, role) ==
  [email |-> email, avatar |-> avatar, confirmed |-> confirmed,
   refresh_token |-> refresh_token, role |-> role]

NewUser(email) == User(email, 0, FALSE, None, "user")

\* the users that signed up before the behaviour starts
Registered == {"a@x.com"}

\* pickle.dumps / pickle.loads of a User: the column values, in order
pickle_dumps(u) == <<u.email, u.avatar, u.confirmed, u.refresh_token, u.role>>
pickle_loads(b) == User(b[1], b[2], b[3], b[4], b[5])

VARIABLES
  now,        \* the UTC wall clock, in seconds
  ticks,      \* how often the clock has advanced
  store,      \* table users: email -> row or NoUser
  cache,      \* Redis db 0: key -> [blob, exp, at]: exp = <<>> for a key without
              \* TTL, at = the time of the last command that wrote the key
  req,        \* the request tasks: slot -> position and locals
  last,       \* the call the last step made, if it was a call with a token:
              \* the slot, the function, the token and the clock
  muts,       \* user-store commits so far (the store's version)
  populated,  \* key -> time get_current_user last gave the key its TTL, if
              \* that is less than 300 seconds ago
  contacts,   \* table contacts: id -> row
  today,      \* date.today(): the server's calendar date
  allowed_roles  \* RoleAccess.allowed_roles of the instance guarding the route

vars == <<now, ticks, store, cache, req, last, muts, populated, contacts, today,
          allowed_roles>>

IdleReq ==
  [op |-> "none", pc |-> "idle", email |-> None, user |-> NoUser,
   code |-> NoStatus, detail |-> NoDetail, hit |-> FALSE,
   lookups |-> 0, sets |-> 0, sver |-> 0, alone |-> TRUE, url |-> 0,
   authed |-> FALSE, checked |-> FALSE, handled |-> FALSE]

NoToken == jwt_encode(<<>>, None)
NoArg == <<>>
NoLast == [r |-> 0, op |-> "none", tok |-> NoToken, at |-> 0, arg |-> NoArg, ret |-> NoArg]

Init ==
  /\ now = 0
  /\ ticks = 0
  /\ store = [e \in Emails |-> IF e \in Registered THEN NewUser(e) ELSE NoUser]
  /\ cache = <<>>
  /\ req = [r \in Slots |-> IdleReq]
  /\ last = NoLast
  /\ muts = 0
  /\ populated = [e \in Emails |-> <<>>]
  /\ contacts = <<>>
  /\ today = Date(2024, 1, 1)
  /\ allowed_roles = access_to_route_all

InFlight(r) == req[r].pc \notin {"idle", "done"}

\* each task serves one request; the tasks are taken in order
CanStart(r) == req[r].pc = "idle" /\ \A o \in Slots : o < r => req[o].pc # "idle"

\* ------------------------------------------------------------------------
\* Redis commands on Auth.cache
\* ------------------------------------------------------------------------
\* GET: the blob, or <<>> for an absent key
cache_get(c, key) == IF key \in DOMAIN c THEN c[key].blob ELSE <<>>

\* (mutant) APPEND in place of SET: the value is added to the one already there
cache_set_mutant(c, key, blob, t) ==
  [k \in (DOMAIN c) \cup {key} |->
     IF k = key THEN [blob |-> cache_get(c, key) \o blob, exp |-> <<>>, at |-> t] ELSE c[k]]

\* SET key value: stores the value and discards any TTL the key had
cache_set(c, key, blob, t) ==
  [k \in (DOMAIN c) \cup {key} |->
     IF k = key THEN [blob |-> blob, exp |-> <<>>, at |-> t] ELSE c[k]]

\* EXPIRE key seconds: a no-op on an absent key
cache_expire(c, key, seconds, t) ==
  IF key \in DOMAIN c THEN [c EXCEPT ![key].exp = <<t + seconds>>, ![key].at = t] ELSE c

\* time-driven expiry: a key whose expiry time has come is absent
Live(c, t) ==
  LET keep == {k \in DOMAIN c : c[k].exp = <<>> \/ c[k].exp[1] > t}
  IN [k \in keep |-> c[k]]

\* ------------------------------------------------------------------------
\* Auth.get_current_user, one action per stretch between suspension points
\* and per Redis command
\* ------------------------------------------------------------------------
Finished(q, code, detail) == [q EXCEPT !.pc = "done", !.code = code, !.detail = detail]

\* what follows a successful get_current_user: GET /users/me returns the
\* user, PATCH /users/avatar runs its handler body
Resolved(q, user) ==
  IF q.op = "avatar" THEN [q EXCEPT !.pc = "upload", !.user = user, !.authed = TRUE]
  ELSE IF q.op = "all" THEN [q EXCEPT !.pc = "role", !.user = user, !.authed = TRUE]
  ELSE [q EXCEPT !.pc = "done", !.user = user, !.code = HTTP_200, !.authed = TRUE]

Overlaps(r, email) == \E o \in Slots \ {r} : InFlight(o) /\ req[o].email = email

\* RateLimiter(times=1, seconds=20) of PATCH /users/avatar: the uploads do not
\* overlap
RateLimiter(op) == \A o \in Slots : req[o].op # op

\* lines 137-158: decode the bearer token, then cache.get
GcuBegin(r, op, token) ==
  /\ CanStart(r)
  /\ op = "avatar" => RateLimiter(op)
  /\ last' = [r |-> r, op |-> op, tok |-> token, at |-> now, arg |-> NoArg, ret |-> NoArg]
  /\ UNCHANGED <<contacts, today, allowed_roles>>
  /\ LET d == DecodeAccess(token, now)
         q == [IdleReq EXCEPT !.op = op]
     IN IF d.code # HTTP_200
        THEN req' = [req EXCEPT ![r] = Finished(q, d.code, d.detail)]
        ELSE LET user_hash == d.email
                 blob == cache_get(cache, user_hash)
                 q1 == [q EXCEPT !.email = d.email, !.alone = ~Overlaps(r, d.email)]
                 q2 == IF blob = <<>> THEN [q1 EXCEPT !.pc = "query"]
                       ELSE Resolved([q1 EXCEPT !.hit = TRUE], pickle_loads(blob))
             IN req' = [o \in Slots |->
                          IF o = r THEN q2
                          ELSE IF InFlight(o) /\ req[o].email = d.email /\ q2.pc # "done"
                               THEN [req[o] EXCEPT !.alone = FALSE] ELSE req[o]]
  /\ UNCHANGED <<now, ticks, store, cache, muts, populated>>

\* (mutant) the first row of the table, whatever the email asked for
get_user_by_email_mutant(email, db) == db["a@x.com"]

\* repository users.get_user_by_email: the row, or NoUser for None
get_user_by_email(email, db) == IF email \in DOMAIN db THEN db[email] ELSE NoUser

\* (mutant) a store miss is cached too, as a placeholder row
GcuQueryMutant(r) ==
  /\ req[r].pc = "query"
  /\ LET user == get_user_by_email(req[r].email, store)
         q == [req[r] EXCEPT !.lookups = @ + 1, !.sver = muts]
     IN IF user = NoUser
        THEN /\ req' = [req EXCEPT ![r] = Finished(q, HTTP_401, CredentialsDetail)]
             /\ cache' = cache_set(cache, req[r].email,
                                   pickle_dumps(NewUser(req[r].email)), now)
        ELSE /\ req' = [req EXCEPT ![r] = [q EXCEPT !.pc = "set", !.user = user]]
             /\ UNCHANGED cache
  /\ last' = NoLast
  /\ UNCHANGED <<contacts, today, allowed_roles>>
  /\ UNCHANGED <<now, ticks, store, muts, populated>>

\* lines 158-162: the awaited store query and the check of its result
GcuQuery(r) ==
  /\ req[r].pc = "query"
  /\ LET user == get_user_by_email(req[r].email, store)
         q == [req[r] EXCEPT !.lookups = @ + 1, !.sver = muts]
     IN IF user = NoUser
        THEN req' = [req EXCEPT ![r] = Finished(q, HTTP_401, CredentialsDetail)]
        ELSE req' = [req EXCEPT ![r] = [q EXCEPT !.pc = "set", !.user = user]]
  /\ last' = NoLast
  /\ UNCHANGED <<contacts, today, allowed_roles>>
  /\ UNCHANGED <<now, ticks, store, cache, muts, populated>>

\* line 163: self.cache.set(user_hash, pickle.dumps(user))
GcuSet(r) ==
  /\ req[r].pc = "set"
  /\ cache' = cache_set(cache, req[r].email, pickle_dumps(req[r].user), now)
  /\ req' = [req EXCEPT ![r] = [@ EXCEPT !.pc = "expire", !.sets = @ + 1]]
  /\ last' = NoLast
  /\ UNCHANGED <<contacts, today, allowed_roles>>
  /\ UNCHANGED <<now, ticks, store, muts, populated>>

\* lines 164-168: self.cache.expire(user_hash, 300) and the return
GcuExpire(r) ==
  /\ req[r].pc = "expire"
  /\ cache' = cache_expire(cache, req[r].email, CacheTTL, now)
  /\ populated' = IF req[r].email \in DOMAIN cache
                  THEN [populated EXCEPT ![req[r].email] = <<now>>] ELSE populated
  /\ req' = [req EXCEPT ![r] = Resolved(@, @.user)]
  /\ last' = NoLast
  /\ UNCHANGED <<contacts, today, allowed_roles>>
  /\ UNCHANGED <<now, ticks, store, muts>>

\* ------------------------------------------------------------------------
\* PATCH /users/avatar (routes/users.py lines 74-83)
\* ------------------------------------------------------------------------
\* (mutant) the new avatar is never committed
update_avatar_url_mutant(email, url, db) == db

\* repository users.update_avatar_url: the committed, refreshed row
update_avatar_url(email, url, db) == [db EXCEPT ![email].avatar = url]

\* lines 74-80: upload, then update_avatar_url; user.avatar on None raises
AvatarUpdate(r, url) ==
  /\ req[r].pc = "upload"
  /\ IF get_user_by_email(req[r].email, store) = NoUser
     THEN /\ req' = [req EXCEPT ![r] = Finished(@, HTTP_500, ServerErrorDetail)]
          /\ UNCHANGED <<store, muts>>
     ELSE /\ store' = update_avatar_url(req[r].email, url, store)
          /\ muts' = muts + 1
          /\ req' = [req EXCEPT ![r] = [@ EXCEPT !.pc = "avset", !.url = url,
                                                 !.sver = muts',
                                                 !.user = store'[req[r].email]]]
  /\ last' = NoLast
  /\ UNCHANGED <<contacts, today, allowed_roles>>
  /\ UNCHANGED <<now, ticks, cache, populated>>

\* line 81: auth_service.cache.set(user.email, pickle.dumps(user))
AvatarSet(r) ==
  /\ req[r].pc = "avset"
  /\ cache' = cache_set(cache, req[r].user.email, pickle_dumps(req[r].user), now)
  /\ req' = [req EXCEPT ![r].pc = "avexpire"]
  /\ last' = NoLast
  /\ UNCHANGED <<contacts, today, allowed_roles>>
  /\ UNCHANGED <<now, ticks, store, muts, populated>>

\* lines 82-83: auth_service.cache.expire(user.email, 300) and the return
AvatarExpire(r) ==
  /\ req[r].pc = "avexpire"
  /\ cache' = cache_expire(cache, req[r].user.email, CacheTTL, now)
  /\ req' = [req EXCEPT ![r] = [@ EXCEPT !.pc = "done", !.code = HTTP_200]]
  /\ last' = NoLast
  /\ UNCHANGED <<contacts, today, allowed_roles>>
  /\ UNCHANGED <<now, ticks, store, muts, populated>>

\* line 164 of auth.py, line 82 of routes/users.py: the EXPIRE command raises
\* (the connection to Redis is lost after the SET) and nothing catches it, so
\* the request ends in a 500 and the key keeps the state the SET gave it
ExpireRaises(r) ==
  /\ req[r].pc \in {"expire", "avexpire"}
  /\ req' = [req EXCEPT ![r] = Finished(@, HTTP_500, ServerErrorDetail)]
  /\ last' = NoLast
  /\ UNCHANGED <<contacts, today, allowed_roles>>
  /\ UNCHANGED <<now, ticks, store, cache, muts, populated>>

\* ------------------------------------------------------------------------
\* The other two decoders, called with a token by the auth routes
\* ------------------------------------------------------------------------
Decoded(op, d) ==
  [IdleReq EXCEPT !.op = op, !.pc = "done", !.code = d.code, !.detail = d.detail,
                  !.email = d.email]

RefreshCall(r, token) ==
  /\ CanStart(r)
  /\ last' = [r |-> r, op |-> "refresh", tok |-> token, at |-> now, arg |-> NoArg, ret |-> NoArg]
  /\ UNCHANGED <<contacts, today, allowed_roles>>
  /\ req' = [req EXCEPT ![r] = Decoded("refresh", decode_refresh_token(token, now))]
  /\ UNCHANGED <<now, ticks, store, cache, muts, populated>>

EmailCall(r, token) ==
  /\ CanStart(r)
  /\ last' = [r |-> r, op |-> "confirm", tok |-> token, at |-> now, arg |-> NoArg, ret |-> NoArg]
  /\ UNCHANGED <<contacts, today, allowed_roles>>
  /\ req' = [req EXCEPT ![r] = Decoded("confirm", get_email_from_token(token, now))]
  /\ UNCHANGED <<now, ticks, store, cache, muts, populated>>

\* ------------------------------------------------------------------------
\* User-store writers and the clock
\* ------------------------------------------------------------------------
\* repository users.create_user: a new row with the column defaults
create_user(email, db) == [db EXCEPT ![email] = NewUser(email)]

CreateUser(email) ==
  /\ muts < MaxMutations
  /\ store[email] = NoUser
  /\ store' = create_user(email, store)
  /\ muts' = muts + 1
  /\ last' = NoLast
  /\ UNCHANGED <<contacts, today, allowed_roles>>
  /\ UNCHANGED <<now, ticks, cache, req, populated>>

\* repository users.update_token
update_token(email, token, db) == [db EXCEPT ![email].refresh_token = token]

UpdateToken(email, token) ==
  /\ muts < MaxMutations
  /\ store[email] # NoUser
  /\ store[email].refresh_token # token
  /\ store' = update_token(email, token, store)
  /\ muts' = muts + 1
  /\ last' = NoLast
  /\ UNCHANGED <<contacts, today, allowed_roles>>
  /\ UNCHANGED <<now, ticks, cache, req, populated>>

\* repository users.confirmed_email
confirmed_email(email, db) == [db EXCEPT ![email].confirmed = TRUE]

ConfirmedEmail(email) ==
  /\ muts < MaxMutations
  /\ store[email] # NoUser
  /\ ~store[email].confirmed
  /\ store' = confirmed_email(email, store)
  /\ muts' = muts + 1
  /\ last' = NoLast
  /\ UNCHANGED <<contacts, today, allowed_roles>>
  /\ UNCHANGED <<now, ticks, cache, req, populated>>

\* a row of table users removed by a client of the database other than this
\* program's repository functions
DeleteUser(email) ==
  /\ muts < MaxMutations
  /\ store[email] # NoUser
  /\ store' = [store EXCEPT ![email] = NoUser]
  /\ muts' = muts + 1
  /\ last' = NoLast
  /\ UNCHANGED <<contacts, today, allowed_roles>>
  /\ UNCHANGED <<now, ticks, cache, req, populated>>

\* the population times that are less than the TTL ago
Recent(p, t) == [k \in DOMAIN p |-> IF p[k] # <<>> /\ t - p[k][1] < 300 THEN p[k] ELSE <<>>]

\* the clock advances; keys whose expiry time has come are gone
Tick(d) ==
  /\ ticks < MaxTicks
  /\ ticks' = ticks + 1
  /\ now' = now + d
  /\ cache' = Live(cache, now')
  /\ populated' = Recent(populated, now')
  /\ last' = NoLast
  /\ UNCHANGED <<contacts, today, allowed_roles>>
  /\ UNCHANGED <<store, req, muts>>

\* ------------------------------------------------------------------------
\* Tokens presented to the program
\* ------------------------------------------------------------------------
\* the payload the auth routes sign: {"sub": email}
SessionPayloads == {[sub |-> e] : e \in Emails}

\* access tokens of the users' sessions: fresh, or minted long enough ago to
\* have expired
SessionTokens(t) ==
  {create_access_token(p, <<>>, t - age) : p \in SessionPayloads, age \in {0, AccessDefaultTTL + 1}}

Next ==
  \/ \E r \in Slots, op \in {"me", "avatar"}, token \in SessionTokens(now) : GcuBegin(r, op, token)
  \/ \E r \in Slots : GcuQuery(r)
  \/ \E r \in Slots : GcuSet(r)
  \/ \E r \in Slots : GcuExpire(r)
  \/ \E r \in Slots, url \in 1..MaxAvatar : AvatarUpdate(r, url)
  \/ \E r \in Slots : AvatarSet(r)
  \/ \E r \in Slots : AvatarExpire(r)
  \/ \E r \in Slots : ExpireRaises(r)
  \/ \E e \in Emails : CreateUser(e)
  \/ \E e \in Emails, token \in RefreshTokens \cup {None} : UpdateToken(e, token)
  \/ \E e \in Emails : ConfirmedEmail(e)
  \/ \E e \in Emails : DeleteUser(e)
  \/ \E d \in TickSteps : Tick(d)

Spec == Init /\ [][Next]_vars

\* ------------------------------------------------------------------------
\* The token functions on their own: one task, every kind of token
\* ------------------------------------------------------------------------
\* payloads with and without a subject, and with a scope field of their own
Payloads ==
  LET subs == {[sub |-> x] : x \in Emails \cup {None}} \cup {<<>>}
      scopes == {[scope |-> x] : x \in {AccessScopeName, RefreshScopeName}} \cup {<<>>}
  IN {DictUpdate(a, b) : a \in subs, b \in scopes}

Deltas == {<<>>, <<0>>, <<ShortTTL>>}

\* how long ago a token with the given lifetime was minted: just now, so that
\* this is its last valid second, and one second earlier than that
Ages(life) == {0, life, life + 1}

MintedFrom(payloads, t) ==
  {create_access_token(p, d, t - age) :
     <<p, d, age>> \in {x \in payloads \X Deltas \X (Ages(AccessDefaultTTL) \cup Ages(ShortTTL)) :
                         x[3] \in Ages(AccessExpire(x[2], 0))}}
  \cup {create_refresh_token(p, d, t - age) :
     <<p, d, age>> \in {x \in payloads \X Deltas \X (Ages(RefreshDefaultTTL) \cup Ages(ShortTTL)) :
                         x[3] \in Ages(RefreshExpire(x[2], 0))}}
  \cup {create_email_token(p, t - age) : p \in payloads, age \in Ages(EmailTokenTTL)}

Minted(t) == MintedFrom(Payloads, t)

\* tokens not made with the secret key, and signed tokens altered afterwards
Forged(t) ==
  {jwt_encode(tk.claims, OtherKey) : tk \in MintedFrom(SessionPayloads, t)}
  \cup {[tk EXCEPT !.claims = DictUpdate(tk.claims, [scope |-> AccessScopeName, exp |-> t + 1])] :
          tk \in MintedFrom(SessionPayloads, t)}

AllTokens(t) == Minted(t) \cup Forged(t)

NextTok ==
  \/ CanStart(1) /\ \E token \in AllTokens(now) : GcuBegin(1, "me", token)
  \/ GcuQuery(1)
  \/ GcuSet(1)
  \/ GcuExpire(1)
  \/ CanStart(1) /\ \E token \in AllTokens(now) : RefreshCall(1, token)
  \/ CanStart(1) /\ \E token \in AllTokens(now) : EmailCall(1, token)
  \/ \E d \in TickSteps : Tick(d)

SpecTok == Init /\ [][NextTok]_vars

\* ------------------------------------------------------------------------
\* Properties of the token functions (checked under SpecTok)
\* ------------------------------------------------------------------------
Called(op) == last.r # 0 /\ last.op = op
Result == req[last.r]

MadeByAccess(token) ==
  /\ "iat" \in DOMAIN token.claims
  /\ \E p \in Payloads, d \in Deltas : token = create_access_token(p, d, token.claims["iat"])

MadeByRefresh(token) ==
  /\ "iat" \in DOMAIN token.claims
  /\ \E p \in Payloads, d \in Deltas : token = create_refresh_token(p, d, token.claims["iat"])

MadeByEmail(token) ==
  /\ "iat" \in DOMAIN token.claims
  /\ \E p \in Payloads : token = create_email_token(p, token.claims["iat"])

Unexpired(token, t) == token.claims["exp"] >= t

\* C1: a validly signed, unexpired token made by create_refresh_token never
\* resolves a user through get_current_user (the call ends in 401), and one made
\* by create_access_token never yields an email from decode_refresh_token (401).
C1_ScopesDoNotCross ==
  /\ (Called("me") /\ MadeByRefresh(last.tok) /\ Unexpired(last.tok, last.at))
       => (Result.pc = "done" /\ Result.code = HTTP_401 /\ Result.user = NoUser)
  /\ (Called("refresh") /\ MadeByAccess(last.tok) /\ Unexpired(last.tok, last.at))
       => (Result.code = HTTP_401 /\ Result.email = None)

\* a refresh token for a registered user, presented as a bearer token, got 401
C1_Witness ==
  /\ Called("me") /\ MadeByRefresh(last.tok) /\ Unexpired(last.tok, last.at)
  /\ "sub" \in DOMAIN last.tok.claims /\ last.tok.claims["sub"] \in Registered
  /\ Result.code = HTTP_401

\* C2 (as claimed): get_email_from_token fails with 422 on a validly signed,
\* unexpired token made by create_access_token or create_refresh_token.
C2_EmailScopeOnly ==
  (Called("confirm") /\ (MadeByAccess(last.tok) \/ MadeByRefresh(last.tok))
     /\ Unexpired(last.tok, last.at)
     /\ "sub" \in DOMAIN last.tok.claims /\ last.tok.claims["sub"] \in Emails)
    => (Result.code = HTTP_422 /\ Result.detail = EmailTokenDetail)

\* C3 (as claimed): get_current_user either returns a user or fails with 401 and
\* the generic message, whatever the bearer token.
C3_UserOr401 ==
  \A r \in Slots : (req[r].op = "me" /\ req[r].pc = "done")
    => \/ req[r].code = HTTP_200 /\ req[r].user # NoUser
       \/ req[r].code = HTTP_401 /\ req[r].detail = CredentialsDetail

\* C4: a token whose exp is earlier than the clock at decode time is rejected by
\* get_current_user, decode_refresh_token and get_email_from_token, even with a
\* valid signature and the right scope, and however little it is past exp.
C4_ExpiredRejected ==
  (last.r # 0 /\ "exp" \in DOMAIN last.tok.claims /\ last.tok.claims["exp"] < last.at)
    => /\ Result.pc = "done"
       /\ Result.user = NoUser /\ Result.email = None
       /\ Result.code = (IF last.op = "confirm" THEN HTTP_422 ELSE HTTP_401)

\* an access token of a registered user, one second past its exp, was rejected
C4_Witness ==
  /\ Called("me") /\ MadeByAccess(last.tok) /\ SignatureOk(last.tok)
  /\ "sub" \in DOMAIN last.tok.claims /\ last.tok.claims["sub"] \in Registered
  /\ last.tok.claims["exp"] = last.at - 1
  /\ Result.code = HTTP_401

\* ------------------------------------------------------------------------
\* Properties of the user cache (checked under Spec)
\* ------------------------------------------------------------------------
\* get_current_user has returned a user to the route of request r
Returned(r) == req[r].user # NoUser /\ req[r].pc \notin {"query", "set", "expire"}

\* the call just made decoded its bearer token to the subject k
Presented(k) ==
  /\ last.r # 0 /\ last.op \in {"me", "avatar"}
  /\ DecodeAccess(last.tok, last.at).code = HTTP_200
  /\ DecodeAccess(last.tok, last.at).email = k

\* C5: from an empty cache the first get_current_user with a valid token of an
\* existing user does exactly one store lookup and one cache population; a call
\* for the same subject less than 300 seconds after that does no store lookup
\* and returns the cached snapshot.
C5_OneLookupThenHits ==
  /\ \A r \in Slots : Returned(r) =>
       IF req[r].hit THEN req[r].lookups = 0 /\ req[r].sets = 0
       ELSE req[r].lookups = 1 /\ req[r].sets = 1
  /\ \A k \in Emails : (Presented(k) /\ k \notin DOMAIN cache) => ~Result.hit
  /\ \A k \in Emails : (Presented(k) /\ populated[k] # <<>>) =>
       /\ k \in DOMAIN cache
       /\ Result.hit /\ Result.lookups = 0
       /\ Result.user = pickle_loads(cache[k].blob)

\* the first call missed and populated; the second, 299 seconds later, hit
C5_Witness ==
  \E k \in Emails :
    /\ Presented(k) /\ last.r = 2 /\ Result.hit /\ Result.lookups = 0
    /\ populated[k] # <<>> /\ now - populated[k][1] = 299
    /\ req[1].email = k /\ req[1].pc = "done" /\ ~req[1].hit
    /\ req[1].lookups = 1 /\ req[1].sets = 1
    /\ Result.user = req[1].user

\* the step by which request r leaves position pc
Leaves(r, pc) == req[r].pc = pc /\ req'[r].pc # pc

\* C6: a cache miss for a subject the store does not know ends in 401 and
\* writes nothing to the cache; a miss for a subject the store knows (such as
\* one created after an earlier 401) goes on with the stored row and caches it.
C6_Step ==
  \A r \in Slots :
    /\ Leaves(r, "query") =>
         IF get_user_by_email(req[r].email, store) = NoUser
         THEN /\ req'[r].pc = "done" /\ req'[r].code = HTTP_401
              /\ req'[r].detail = CredentialsDetail
              /\ cache' = cache
         ELSE /\ req'[r].pc = "set"
              /\ req'[r].user = store[req[r].email]
    /\ Leaves(r, "set") =>
         /\ req[r].email \in DOMAIN cache'
         /\ cache'[req[r].email].blob = pickle_dumps(req[r].user)

C6_NoNegativeCaching == [][C6_Step]_vars

\* a subject got 401 from a store miss, was created, and then got through on a
\* miss that cached it
C6_Witness ==
  \E r1, r2 \in Slots :
    /\ req[r1].pc = "done" /\ req[r1].code = HTTP_401 /\ req[r1].lookups = 1
    /\ req[r2].pc = "done" /\ req[r2].code = HTTP_200 /\ req[r2].lookups = 1
    /\ req[r1].email = req[r2].email
    /\ req[r1].sver < req[r2].sver
    /\ req[r2].email \in DOMAIN cache
    /\ cache[req[r2].email].blob = pickle_dumps(req[r2].user)

\* C7 (as claimed): in every reachable state every cache entry has a TTL, at
\* most 300 seconds from its last write.
C7_AlwaysTTL ==
  \A k \in DOMAIN cache :
    cache[k].exp # <<>> /\ cache[k].exp[1] <= cache[k].at + 300

\* C8: when the avatar-update handler completes for a user with no other
\* request for that user in flight, the cache entry under the user's email is
\* the snapshot with the new avatar and a fresh 300-second TTL, and the next
\* get_current_user served from the cache returns the new avatar.
C8_Step ==
  \A r \in Slots :
    ( /\ Leaves(r, "avexpire") /\ req'[r].code = HTTP_200
      /\ req[r].alone /\ ~Overlaps(r, req[r].email) ) =>
      LET k == req[r].email
      IN /\ req'[r].pc = "done"
         /\ req[r].user.email = k /\ req[r].user.avatar = req[r].url
         /\ k \in DOMAIN cache'
         /\ cache'[k].exp = <<now + 300>>
         /\ pickle_loads(cache'[k].blob) = req[r].user

C8_Served ==
  \A k \in Emails : \A o \in Slots :
    ( /\ Presented(k) /\ last.r # o /\ Result.hit
      /\ req[o].op = "avatar" /\ req[o].pc = "done" /\ req[o].code = HTTP_200
      /\ req[o].email = k /\ req[o].alone /\ req[o].sver = muts )
    => Result.user.avatar = req[o].url

C8_AvatarRefreshesCache == [][C8_Step]_vars /\ []C8_Served

\* an upload finished on its own, and the next request of that user was served
\* the new avatar from the cache
C8_Witness ==
  \E k \in Emails :
    /\ Presented(k) /\ last.r = 2 /\ Result.hit
    /\ req[1].op = "avatar" /\ req[1].pc = "done" /\ req[1].code = HTTP_200
    /\ req[1].email = k /\ req[1].alone /\ req[1].url >= 1
    /\ Result.user.avatar = req[1].url
    /\ cache[k].exp # <<>>

\* a request is about to write key k: it is between its store read and its
\* SET, or between its SET and its EXPIRE
PendingWrite(k) ==
  \E r \in Slots : \/ req[r].pc \in {"set", "expire"} /\ req[r].email = k
                   \/ req[r].pc \in {"avset", "avexpire"} /\ req[r].user.email = k

\* C9 (as claimed): a cached snapshot that differs from the store lives at most
\* 300 seconds past the last cache write on its key: once no request is left to
\* write the key, an entry is present only if it was last written less than 300
\* seconds ago; absent, the next get_current_user goes to the store and gets
\* its current row (or 401 if the user is gone).
C9_BoundedStaleness ==
  /\ \A k \in DOMAIN cache : ~PendingWrite(k) => now < cache[k].at + 300
  /\ \A k \in Emails : (Presented(k) /\ k \notin DOMAIN cache) => Result.pc = "query"
  /\ \A r \in Slots : (req[r].lookups = 1 /\ req[r].sver = muts) =>
       /\ req[r].user = store[req[r].email]
       /\ (req[r].op = "me" /\ req[r].pc = "done" /\ req[r].code # HTTP_500) =>
            req[r].code = (IF store[req[r].email] = NoUser THEN HTTP_401 ELSE HTTP_200)

\* C10: two get_current_user requests for one subject that both miss the cache
\* both query the store and both write the cache; with no store commit between
\* their queries they return the same user and the entry they leave is the
\* snapshot either of them writes alone.
C10_IdempotentOverwrite ==
  \A r1, r2 \in Slots :
    ( /\ r1 # r2 /\ req[r1].email = req[r2].email
      /\ \A r \in {r1, r2} : /\ req[r].op = "me" /\ req[r].pc = "done"
                             /\ req[r].code = HTTP_200 /\ ~req[r].hit
      /\ req[r1].sver = req[r2].sver )
    => /\ req[r1].user = req[r2].user
       /\ req[r1].lookups = 1 /\ req[r1].sets = 1
       /\ populated[req[r1].email] # <<>> => req[r1].email \in DOMAIN cache
       /\ req[r1].email \in DOMAIN cache =>
            /\ cache[req[r1].email].blob = pickle_dumps(req[r1].user)
            /\ cache[req[r1].email].exp # <<>>

\* both requests were in flight together, both missed, and both are done
C10_Witness ==
  /\ \A r \in Slots : /\ req[r].op = "me" /\ req[r].pc = "done" /\ req[r].code = HTTP_200
                      /\ ~req[r].hit /\ ~req[r].alone
                      /\ req[r].lookups = 1 /\ req[r].sets = 1
  /\ req[1].email = req[2].email /\ req[1].sver = req[2].sver
  /\ req[1].email \in DOMAIN cache

\* ------------------------------------------------------------------------
\* Table contacts (entity/models.py, repository/contacts.py)
\* ------------------------------------------------------------------------
\* a ContactSchema / ContactUpdate request body
Body(name, surname, email, phone, birthday) ==
  [name |-> name, surname |-> surname, email |-> email, phone |-> phone,
   birthday |-> birthday]

\* Contact(**body.model_dump(), user=user) with primary key id
Contact(id, user, body) ==
  [id |-> id, user |-> user, name |-> body.name, surname |-> body.surname,
   email |-> body.email, phone |-> body.phone, birthday |-> body.birthday]

\* the rows of a table in primary-key order, as a scan returns them
RECURSIVE Scan(_)
Scan(db) ==
  IF DOMAIN db = {} THEN <<>>
  ELSE LET i == CHOOSE j \in DOMAIN db : \A k \in DOMAIN db : j <= k
       IN <<db[i]>> \o Scan([k \in DOMAIN db \ {i} |-> db[k]])

\* .offset(offset).limit(limit)
OffsetLimit(rows, offset, limit) ==
  SubSeq(rows, offset + 1, IF Len(rows) < offset + limit THEN Len(rows) ELSE offset + limit)

\* repository contacts.get_all_contacts: no filter on the owner
get_all_contacts(limit, offset, db) == OffsetLimit(Scan(db), offset, limit)

\* ------------------------------------------------------------------------
\* The role gate (services/roles.py) and GET /contacts/all
\* ------------------------------------------------------------------------
\* (mutant) only the first role of the list is let through
RoleAccessMutant(allowed, user) == allowed # <<>> /\ allowed[1] = user.role

\* RoleAccess.__call__, line 40: user.role in self.allowed_roles
RoleAccess(allowed, user) == \E i \in DOMAIN allowed : allowed[i] = user.role

\* lines 39-44: runs with the user get_current_user returned
RoleCheck(r) ==
  /\ req[r].pc = "role"
  /\ req' = [req EXCEPT ![r] =
               IF RoleAccess(allowed_roles, req[r].user)
               THEN [@ EXCEPT !.pc = "handler", !.checked = TRUE]
               ELSE Finished([@ EXCEPT !.checked = TRUE], HTTP_403, ForbiddenDetail)]
  /\ last' = NoLast
  /\ UNCHANGED <<contacts, today, allowed_roles>>
  /\ UNCHANGED <<now, ticks, store, cache, muts, populated>>

\* routes/contacts.py lines 67-71: the handler of GET /contacts/all
GetAllContacts(r, limit, offset) ==
  /\ req[r].pc = "handler"
  /\ LET rows == get_all_contacts(limit, offset, contacts)
     IN /\ req' = [req EXCEPT ![r] =
                     IF rows # <<>> THEN Finished([@ EXCEPT !.handled = TRUE], HTTP_200, NoDetail)
                     ELSE Finished([@ EXCEPT !.handled = TRUE], HTTP_404, ContactsNotFoundDetail)]
        /\ last' = [r |-> r, op |-> "get_all_contacts", tok |-> NoToken, at |-> now,
                    arg |-> [limit |-> limit, offset |-> offset], ret |-> [rows |-> rows]]
  /\ UNCHANGED <<contacts, today, allowed_roles>>
  /\ UNCHANGED <<now, ticks, store, cache, muts, populated>>

\* the lists a RoleAccess can be constructed with: each role at most once
AllowLists ==
  {l \in UNION {[1..n -> Roles] : n \in 0..MaxAllowed} :
     \A i, j \in DOMAIN l : l[i] = l[j] => i = j}

\* column role is nullable: a row can have no role
RoleValues == Roles \cup {None}

SeedBody == Body("Ann", "Lee", "ann@y.org", "555-0100", Date(1990, 6, 15))

\* bearer tokens a client holds: its access tokens, its refresh token and the
\* token of its verification mail
BearerTokens(t) ==
  SessionTokens(t)
  \cup {create_refresh_token(p, <<>>, t) : p \in SessionPayloads}
  \cup {create_email_token(p, t) : p \in SessionPayloads}

InitRole ==
  /\ now = 0
  /\ ticks = 0
  /\ store \in {[e \in Emails |-> IF e \in Registered THEN User(e, 0, TRUE, None, ro) ELSE NoUser] :
                  ro \in RoleValues}
  /\ cache = <<>>
  /\ req = [r \in Slots |-> IdleReq]
  /\ last = NoLast
  /\ muts = 0
  /\ populated = [e \in Emails |-> <<>>]
  /\ contacts = [i \in {1} |-> Contact(1, "a@x.com", SeedBody)]
  /\ today = Date(2024, 1, 1)
  /\ allowed_roles \in AllowLists

NextRole ==
  \/ \E r \in Slots, token \in BearerTokens(now) : GcuBegin(r, "all", token)
  \/ \E r \in Slots : GcuQuery(r)
  \/ \E r \in Slots : GcuSet(r)
  \/ \E r \in Slots : GcuExpire(r)
  \/ \E r \in Slots : ExpireRaises(r)
  \/ \E r \in Slots : RoleCheck(r)
  \/ \E r \in Slots, offset \in {0, 1} : GetAllContacts(r, 10, offset)

SpecRole == InitRole /\ [][NextRole]_vars

\* ------------------------------------------------------------------------
\* Properties of the role gate (checked under SpecRole)
\* ------------------------------------------------------------------------
\* the set of roles a list names, whatever their order
Listed(allowed) == {allowed[i] : i \in DOMAIN allowed}

\* the role gate let request r through
Passed(r) == req[r].checked /\ req[r].code # HTTP_403 /\ req[r].pc \in {"handler", "done"}

\* the role gate stopped request r with 403 Forbidden
Forbidden(r) ==
  /\ req[r].checked /\ req[r].pc = "done" /\ ~req[r].handled
  /\ req[r].code = HTTP_403 /\ req[r].detail = ForbiddenDetail

\* C11: RoleAccess lets a request through exactly when the resolved user's role
\* is one of the roles of the allow-list, in whatever order the list names them,
\* and otherwise ends the request with 403 Forbidden; an empty list stops every
\* role, an unset role included; with the list of /contacts/all a user of role
\* user is stopped while admin and moderator pass.
C11_RoleGate ==
  \A r \in Slots : req[r].checked =>
    /\ req[r].user.role \in Listed(allowed_roles) => Passed(r)
    /\ req[r].user.role \notin Listed(allowed_roles) => Forbidden(r)
    /\ allowed_roles = <<>> => Forbidden(r)
    /\ Listed(allowed_roles) = {"admin", "moderator"} =>
         /\ req[r].user.role = "user" => Forbidden(r)
         /\ req[r].user.role \in {"admin", "moderator"} => Passed(r)

\* with the list of /contacts/all one request of a user of role user was
\* stopped with 403
C11_Witness ==
  /\ allowed_roles = access_to_route_all
  /\ \E r \in Slots : Forbidden(r) /\ req[r].user.role = "user"

\* C12 (as claimed): on the role-guarded route a request whose authentication
\* fails ends in 401 and never in 403; the role check runs only after
\* get_current_user returned a user, and does no user lookup of its own; the
\* handler get_all_contacts runs only after authentication and role check passed.
C12_RoleAfterAuth ==
  \A r \in Slots : req[r].op = "all" =>
    /\ (req[r].pc = "done" /\ ~req[r].authed) => req[r].code = HTTP_401
    /\ req[r].checked => req[r].authed
    /\ req[r].handled => (req[r].authed /\ req[r].checked
                            /\ req[r].user.role \in Listed(allowed_roles))
    /\ req[r].lookups = (IF req[r].hit \/ req[r].pc \in {"idle", "query"}
                            \/ req[r].email = None THEN 0 ELSE 1)

\* C13 (as claimed): decode_refresh_token fails in one way whatever the reason:
\* a bad signature, an expired token, a wrong scope and a missing scope or
\* subject claim all give 401 with the same generic message.
C13_UniformRefreshFailure ==
  (Called("refresh") /\ Result.email = None) =>
    (Result.code = HTTP_401 /\ Result.detail = CredentialsDetail)

\* ------------------------------------------------------------------------
\* The token makers and the password check on their own
\* ------------------------------------------------------------------------
\* jwt.decode(token, SECRET_KEY, algorithms=[ALGORITHM]): the claim set, unless
\* it raises
jwt_decode(token, t) == [raised |-> JWTError(token, t), claims |-> token.claims]

Made(op, token, arg) ==
  [r |-> 0, op |-> op, tok |-> token, at |-> now, arg |-> arg, ret |-> NoArg]

CreateAccessToken(data, expires_delta) ==
  /\ last' = Made("create_access_token", create_access_token(data, expires_delta, now),
                  [data |-> data, expires_delta |-> expires_delta])
  /\ UNCHANGED <<now, ticks, store, cache, req, muts, populated>>
  /\ UNCHANGED <<contacts, today, allowed_roles>>

CreateRefreshToken(data, expires_delta) ==
  /\ last' = Made("create_refresh_token", create_refresh_token(data, expires_delta, now),
                  [data |-> data, expires_delta |-> expires_delta])
  /\ UNCHANGED <<now, ticks, store, cache, req, muts, populated>>
  /\ UNCHANGED <<contacts, today, allowed_roles>>

CreateEmailToken(data) ==
  /\ last' = Made("create_email_token", create_email_token(data, now),
                  [data |-> data, expires_delta |-> <<>>])
  /\ UNCHANGED <<now, ticks, store, cache, req, muts, populated>>
  /\ UNCHANGED <<contacts, today, allowed_roles>>

\* passwords, and the strings column users.password can hold: a bcrypt hash
\* ($2b$, a salt, the digest of a password under that salt), or a string that
\* is none: no known prefix, or the prefix with a truncated rest
Passwords == {"pw1", "pw2"}
Salts == {1, 2}
BcryptIdent == "$2b$"
Bcrypt(salt, password) == [ident |-> BcryptIdent, salt |-> salt, digest |-> password]

\* Auth.get_password_hash: pwd_context.hash with a salt of its choosing
get_password_hash(password, salt) == Bcrypt(salt, password)

MalformedHashes ==
  {[ident |-> "", salt |-> 0, digest |-> x] : x \in Passwords \cup {""}}
  \cup {[ident |-> BcryptIdent, salt |-> 0, digest |-> ""]}

StoredHashes == {get_password_hash(p, n) : p \in Passwords, n \in Salts} \cup MalformedHashes

\* CryptContext.identify: the scheme whose prefix the string has
Identified(hash) == hash.ident = BcryptIdent

\* CryptContext(schemes=["bcrypt"]).verify: UnknownHashError for a string no
\* scheme identifies, ValueError for a bcrypt prefix with a malformed rest
pwd_context_verify(secret, hash) ==
  IF ~Identified(hash) THEN [raised |-> TRUE, value |-> FALSE]
  ELSE IF hash.salt \notin Salts THEN [raised |-> TRUE, value |-> FALSE]
  ELSE [raised |-> FALSE, value |-> (hash = Bcrypt(hash.salt, secret))]

\* Auth.verify_password, line 45
verify_password(plain_password, hashed_password) ==
  pwd_context_verify(plain_password, hashed_password)

VerifyPassword(plain_password, hashed_password) ==
  /\ last' = [r |-> 0, op |-> "verify_password", tok |-> NoToken, at |-> now,
              arg |-> [plain_password |-> plain_password, hashed_password |-> hashed_password],
              ret |-> verify_password(plain_password, hashed_password)]
  /\ UNCHANGED <<now, ticks, store, cache, req, muts, populated>>
  /\ UNCHANGED <<contacts, today, allowed_roles>>

NextAuth ==
  \/ \E data \in Payloads, d \in Deltas : CreateAccessToken(data, d)
  \/ \E data \in Payloads, d \in Deltas : CreateRefreshToken(data, d)
  \/ \E data \in Payloads : CreateEmailToken(data)
  \/ \E p \in Passwords, h \in StoredHashes : VerifyPassword(p, h)
  \/ \E d \in TickSteps : Tick(d)

SpecAuth == Init /\ [][NextAuth]_vars

\* ------------------------------------------------------------------------
\* Properties of the token makers and of verify_password (checked under SpecAuth)
\* ------------------------------------------------------------------------
Makers == {"create_access_token", "create_refresh_token", "create_email_token"}
ReservedClaims == {"iat", "exp", "scope"}

\* a payload that is a valid claim set: its subject, if any, is a string
ValidPayload(data) == "sub" \in DOMAIN data => data["sub"] # None

\* C14 (as claimed): for a payload that uses none of the reserved names, the
\* claims decoded before expiry from a token of create_access_token,
\* create_refresh_token or create_email_token hold every payload field unchanged
\* and the three reserved claims iat, exp and scope.
C14_RoundTrip ==
  ( /\ last.op \in Makers
    /\ DOMAIN last.arg.data \cap ReservedClaims = {}
    /\ ValidPayload(last.arg.data) )
  => \A t \in {last.at, last.tok.claims["exp"]} :
       LET decoded == jwt_decode(last.tok, t)
       IN /\ ~decoded.raised
          /\ \A k \in DOMAIN last.arg.data :
               k \in DOMAIN decoded.claims /\ decoded.claims[k] = last.arg.data[k]
          /\ ReservedClaims \subseteq DOMAIN decoded.claims

\* C15 (as claimed): exp of an access or refresh token is the creation time plus
\* the caller's ttl whenever one is passed, 0 included, and the creation time
\* plus 15 minutes (access) or 7 days (refresh) only when none is passed; exp of
\* an email token is the creation time plus 2 days.
C15_ExpFromTtl ==
  /\ last.op \in {"create_access_token", "create_refresh_token"} =>
       last.tok.claims["exp"] =
         last.at + (IF last.arg.expires_delta # <<>> THEN last.arg.expires_delta[1]
                    ELSE IF last.op = "create_access_token" THEN 15 * 60
                    ELSE 7 * 24 * 60 * 60)
  /\ last.op = "create_email_token" => last.tok.claims["exp"] = last.at + 2 * 24 * 60 * 60

\* C17 (as claimed): verify_password returns false and does not raise when the
\* stored hash is not a recognisable hash string, whatever the password.
C17_MalformedHashIsFalse ==
  (last.op = "verify_password" /\ last.arg.hashed_password \in MalformedHashes)
    => (~last.ret.raised /\ ~last.ret.value)

\* ------------------------------------------------------------------------
\* Frame of get_current_user (checked under Spec)
\* ------------------------------------------------------------------------
\* request r takes a step of get_current_user
GcuStep(r) == req[r].pc \in {"idle", "query", "set", "expire"} /\ req'[r].pc # req[r].pc

C16_Step ==
  \A r \in Slots : GcuStep(r) =>
    /\ store' = store
    /\ cache' # cache =>
         /\ req[r].pc \in {"set", "expire"} /\ ~req[r].hit /\ req[r].lookups = 1
         /\ req[r].user # NoUser
    /\ req'[r].hit => cache' = cache

\* get_current_user of request r ended without returning a user
Failed(r) == req[r].pc = "done" /\ ~req[r].authed

C16_FailureWritesNothing == \A r \in Slots : Failed(r) => req[r].sets = 0

\* C16 (as claimed): get_current_user never modifies the user store, and it
\* modifies the cache only on a miss that finds the user in the store: a hit
\* leaves the entry and its remaining TTL as they are, and every failing call
\* leaves the cache as it found it.
C16_OnlyPopulates == [][C16_Step]_vars /\ []C16_FailureWritesNothing

\* ------------------------------------------------------------------------
\* datetime.date arithmetic
\* ------------------------------------------------------------------------
IsLeap(y) == y % 4 = 0 /\ (y % 100 # 0 \/ y % 400 = 0)

DaysIn(y, m) ==
  IF m = 2 THEN (IF IsLeap(y) THEN 29 ELSE 28)
  ELSE IF m \in {4, 6, 9, 11} THEN 30 ELSE 31

ValidDate(d) == d.month \in 1..12 /\ d.day \in 1..DaysIn(d.year, d.month)

Tomorrow(d) ==
  IF d.day < DaysIn(d.year, d.month) THEN Date(d.year, d.month, d.day + 1)
  ELSE IF d.month < 12 THEN Date(d.year, d.month + 1, 1)
  ELSE Date(d.year + 1, 1, 1)

Yesterday(d) ==
  IF d.day > 1 THEN Date(d.year, d.month, d.day - 1)
  ELSE IF d.month > 1 THEN Date(d.year, d.month - 1, DaysIn(d.year, d.month - 1))
  ELSE Date(d.year - 1, 12, 31)

\* date + timedelta(days=n)
RECURSIVE AddDays(_, _)
AddDays(d, n) ==
  IF n = 0 THEN d
  ELSE IF n > 0 THEN AddDays(Tomorrow(d), n - 1)
  ELSE AddDays(Yesterday(d), n + 1)

\* date >= date
DateGe(a, b) ==
  \/ a.year > b.year
  \/ a.year = b.year /\ a.month > b.month
  \/ a.year = b.year /\ a.month = b.month /\ a.day >= b.day

\* ------------------------------------------------------------------------
\* The contact routes, each with the user get_current_user resolved for it
\* ------------------------------------------------------------------------
Reply(code, detail, rows) == [code |-> code, detail |-> detail, rows |-> rows]

ContactCall(op, arg, ret) ==
  [r |-> 0, op |-> op, tok |-> NoToken, at |-> now, arg |-> arg, ret |-> ret]

\* select(Contact).filter_by(id=contact_id, user=user): scalar_one_or_none()
Owned(contact_id, user, db) == contact_id \in DOMAIN db /\ db[contact_id].user = user

\* the primary key the database gives the next row
NextId(db) == IF DOMAIN db = {} THEN 1 ELSE 1 + CHOOSE i \in DOMAIN db : \A j \in DOMAIN db : j <= i

\* repository contacts.create_contact: the reply and the table it leaves.
\* Column email is unique: a second row with the email fails at commit
create_contact(body, db, user, t) ==
  IF DateGe(body.birthday, t)
  THEN [reply |-> Reply(HTTP_400, BirthdayDetail, <<>>), db |-> db]
  ELSE IF \E i \in DOMAIN db : db[i].email = body.email
  THEN [reply |-> Reply(HTTP_500, DatabaseErrorDetail, <<>>), db |-> db]
  ELSE LET row == Contact(NextId(db), user, body)
       IN [reply |-> Reply(HTTP_201, NoDetail, <<row>>),
           db |-> [i \in DOMAIN db \cup {row.id} |-> IF i = row.id THEN row ELSE db[i]]]

CreateContact(user, body) ==
  /\ Cardinality(DOMAIN contacts) < MaxContacts
  /\ NextId(contacts) <= MaxContacts
  /\ LET res == create_contact(body, contacts, user, today)
     IN /\ contacts' = res.db
        /\ last' = ContactCall("create_contact", [user |-> user, body |-> body], res.reply)
  /\ UNCHANGED <<now, ticks, store, cache, req, muts, populated, today, allowed_roles>>

\* repository contacts.update_contact. Line 71 reads contact.model_dump(), and
\* contact is the module src.schema.contact imported at line 10, not the
\* request body contact_update: the attribute lookup raises AttributeError
\* before any setattr, and the request ends in a 500
update_contact(contact_id, contact_update, db, user) ==
  IF ~Owned(contact_id, user, db)
  THEN [reply |-> Reply(HTTP_404, ContactNotFoundDetail, <<>>), db |-> db]
  ELSE [reply |-> Reply(HTTP_500, ServerErrorDetail, <<>>), db |-> db]

UpdateContact(user, contacts_id, body) ==
  /\ LET res == update_contact(contacts_id, body, contacts, user)
     IN /\ contacts' = res.db
        /\ last' = ContactCall("update_contact",
                               [user |-> user, contact_id |-> contacts_id, body |-> body],
                               res.reply)
  /\ UNCHANGED <<now, ticks, store, cache, req, muts, populated, today, allowed_roles>>

\* repository contacts.delete_contact
delete_contact(contact_id, db, user) ==
  IF ~Owned(contact_id, user, db)
  THEN [reply |-> Reply(HTTP_404, ContactNotFoundDetail, <<>>), db |-> db]
  ELSE [reply |-> Reply(HTTP_204, NoDetail, <<db[contact_id]>>),
        db |-> [i \in DOMAIN db \ {contact_id} |-> db[i]]]

DeleteContact(user, contacts_id) ==
  /\ LET res == delete_contact(contacts_id, contacts, user)
     IN /\ contacts' = res.db
        /\ last' = ContactCall("delete_contact", [user |-> user, contact_id |-> contacts_id],
                               res.reply)
  /\ UNCHANGED <<now, ticks, store, cache, req, muts, populated, today, allowed_roles>>

\* (mutant) only the branch for a week inside one month
BirthdayFilterMutant(birthday, t, next_week) ==
  /\ birthday.month = t.month
  /\ birthday.day >= t.day
  /\ birthday.month = next_week.month
  /\ birthday.day <= next_week.day

\* lines 97-119: the filter of the query, on extract('month') and extract('day')
BirthdayFilter(birthday, t, next_week) ==
  \/ /\ birthday.month = t.month
     /\ birthday.day >= t.day
     /\ birthday.month = next_week.month
     /\ birthday.day <= next_week.day
  \/ /\ t.month # next_week.month
     /\ \/ /\ birthday.month = t.month
           /\ birthday.day >= t.day
        \/ /\ birthday.month = next_week.month
           /\ birthday.day <= next_week.day

\* repository contacts.get_upcoming_birthdays: user is not used in the query
get_upcoming_birthdays(db, user, t) ==
  LET next_week == AddDays(t, 7)
      Test(row) == BirthdayFilter(row.birthday, t, next_week)
  IN SelectSeq(Scan(db), Test)

\* routes/contacts.py lines 189-193
GetUpcomingBirthdays(user) ==
  /\ LET rows == get_upcoming_birthdays(contacts, user, today)
     IN last' = ContactCall("get_upcoming_birthdays", [user |-> user],
                            IF rows # <<>> THEN Reply(HTTP_200, NoDetail, rows)
                            ELSE Reply(HTTP_404, ContactsNotFoundDetail, <<>>))
  /\ UNCHANGED <<now, ticks, store, cache, req, muts, populated, contacts, today,
                 allowed_roles>>

\* Contact.<column>.ilike(f"%{pattern}%"): the text contains the pattern,
\* letter case aside; the texts and patterns of the model, one by one
Ilike(text, pattern) ==
  \/ pattern = "an" /\ text \in {"Ann", "ann@y.org"}
  \/ pattern = "ray" /\ text = "Ray"
  \/ pattern = "y.org" /\ text \in {"ann@y.org", "bob@y.org", "cy@y.org"}

\* repository contacts.get_contacts: the rows of the user, offset and limit,
\* and a filter for each of name, surname and email that is given
get_contacts(limit, offset, name, surname, email, db, user) ==
  LET Test(row) ==
        /\ row.user = user
        /\ name # None => Ilike(row.name, name)
        /\ surname # None => Ilike(row.surname, surname)
        /\ email # None => Ilike(row.email, email)
  IN OffsetLimit(SelectSeq(Scan(db), Test), offset, limit)

\* routes/contacts.py lines 41-45
GetContacts(user, limit, offset, name, surname, email) ==
  /\ LET rows == get_contacts(limit, offset, name, surname, email, contacts, user)
     IN last' = ContactCall("get_contacts",
                            [user |-> user, limit |-> limit, offset |-> offset,
                             name |-> name, surname |-> surname, email |-> email],
                            IF rows # <<>> THEN Reply(HTTP_200, NoDetail, rows)
                            ELSE Reply(HTTP_404, ContactsNotFoundDetail, <<>>))
  /\ UNCHANGED <<now, ticks, store, cache, req, muts, populated, contacts, today,
                 allowed_roles>>

\* repository contacts.get_contact: scalar_one_or_none(), <<>> for None
get_contact(contact_id, db, user) ==
  IF Owned(contact_id, user, db) THEN <<db[contact_id]>> ELSE <<>>

\* routes/contacts.py lines 91-95
GetContact(user, contacts_id) ==
  /\ LET rows == get_contact(contacts_id, contacts, user)
     IN last' = ContactCall("get_contact", [user |-> user, contact_id |-> contacts_id],
                            IF rows # <<>> THEN Reply(HTTP_200, NoDetail, rows)
                            ELSE Reply(HTTP_404, ContactNotFoundDetail, <<>>))
  /\ UNCHANGED <<now, ticks, store, cache, req, muts, populated, contacts, today,
                 allowed_roles>>

\* the query parameters a client passes to GET /contacts/: the defaults, a
\* later page, or filters
Queries ==
  {[offset |-> 0, name |-> None, surname |-> None, email |-> None],
   [offset |-> 1, name |-> None, surname |-> None, email |-> None],
   [offset |-> 0, name |-> "an", surname |-> None, email |-> "y.org"],
   [offset |-> 0, name |-> None, surname |-> "ray", email |-> None]}

\* the days date.today() is taken from: around the ends of December, of
\* February (leap year or not) and of a 30-day month, and inside a month
Todays ==
  {d \in {Date(x[1], x[2][1], x[2][2]) : x \in
            {2023, 2024} \X {<<12, 23>>, <<12, 24>>, <<12, 25>>, <<12, 30>>, <<12, 31>>,
                             <<1, 1>>, <<2, 20>>, <<2, 21>>, <<2, 22>>, <<2, 27>>, <<2, 28>>,
                             <<2, 29>>, <<3, 1>>, <<4, 22>>, <<4, 23>>, <<4, 24>>, <<4, 30>>,
                             <<6, 10>>}} : ValidDate(d)}

\* birthdays of the contacts a client enters: the day before the week from the
\* given day starts, its first and last day and the day after, 29 February, and
\* a day yet to come
BirthYear == 2000
Near(t, offsets) ==
  {Date(BirthYear, b.month, b.day) : b \in {AddDays(Date(BirthYear, t.month, t.day), k) : k \in offsets}}

Birthdays(t) == Near(t, {-1, 0, 7, 8}) \cup {Date(BirthYear, 2, 29), Tomorrow(t)}

Bodies(t) ==
  {Body("Ann", "Lee", "ann@y.org", "555-0100", b) : b \in Birthdays(t)}
  \cup {Body("Bob", "Ray", "bob@y.org", "555-0101", b) : b \in Near(t, {-1, 7})}

UpdateBody == Body("Cy", "Poe", "cy@y.org", "555-0102", Date(1985, 3, 9))

InitContacts ==
  /\ now = 0
  /\ ticks = 0
  /\ store = [e \in Emails |-> NewUser(e)]
  /\ cache = <<>>
  /\ req = [r \in Slots |-> IdleReq]
  /\ last = NoLast
  /\ muts = 0
  /\ populated = [e \in Emails |-> <<>>]
  /\ contacts = <<>>
  /\ today \in Todays
  /\ allowed_roles = access_to_route_all

NextContacts ==
  \/ \E u \in Emails, body \in Bodies(today) : CreateContact(u, body)
  \/ \E u \in Emails, id \in 1..MaxContacts : UpdateContact(u, id, UpdateBody)
  \/ \E u \in Emails, id \in 1..MaxContacts : DeleteContact(u, id)
  \/ \E u \in Emails : GetUpcomingBirthdays(u)
  \/ \E u \in Emails, q \in Queries :
       GetContacts(u, 10, q.offset, q.name, q.surname, q.email)
  \/ \E u \in Emails, id \in 1..MaxContacts : GetContact(u, id)

SpecContacts == InitContacts /\ [][NextContacts]_vars

\* ------------------------------------------------------------------------
\* Properties of the contact routes (checked under SpecContacts)
\* ------------------------------------------------------------------------
\* the rows of a reply, as a set
RowsOf(reply) == {reply.rows[i] : i \in DOMAIN reply.rows}

\* C18 (as claimed): the birthday search called on behalf of a user returns only
\* contacts that user owns, never a contact of another user.
C18_BirthdaysOwnOnly ==
  last.op = "get_upcoming_birthdays" =>
    \A row \in RowsOf(last.ret) : row.user = last.arg.user

\* C19 (as claimed): update_contact on an existing contact of the requesting
\* user sets name, surname, email, phone and birthday to the values of the
\* body, keeps id and owner, and returns the updated contact; on an id that
\* does not exist it fails with 404 and changes no contact.
C19_Step ==
  last'.op = "update_contact" =>
    LET id == last'.arg.contact_id
        user == last'.arg.user
        body == last'.arg.body
    IN IF id \in DOMAIN contacts
       THEN contacts[id].user = user =>
              /\ contacts' = [contacts EXCEPT ![id] = Contact(id, user, body)]
              /\ last'.ret.code = HTTP_200
              /\ last'.ret.rows = <<contacts'[id]>>
       ELSE /\ last'.ret.code = HTTP_404
            /\ contacts' = contacts

C19_UpdateSetsFields == [][C19_Step]_vars

\* month and day of a date in calendar order
MonthDayLe(a, b) == a.month < b.month \/ (a.month = b.month /\ a.day <= b.day)

\* the month-and-day of the birthday lies in the closed interval from the
\* month-and-day of t to that of t + 7 days, which wraps at the end of December
InWeekFrom(birthday, t) ==
  LET end == AddDays(t, 7)
  IN IF MonthDayLe(t, end)
     THEN MonthDayLe(t, birthday) /\ MonthDayLe(birthday, end)
     ELSE MonthDayLe(t, birthday) \/ MonthDayLe(birthday, end)

\* C20: get_upcoming_birthdays selects exactly the contacts whose birthday's
\* month-and-day lies in the closed interval from today to today + 7 days,
\* also when the interval crosses the end of a month or of the year; a contact
\* with a birthday outside the interval is never selected.
C20_BirthdayWeek ==
  last.op = "get_upcoming_birthdays" =>
    /\ RowsOf(last.ret) = {contacts[i] : i \in {j \in DOMAIN contacts :
                                                  InWeekFrom(contacts[j].birthday, today)}}
    /\ last.ret.code = (IF RowsOf(last.ret) = {} THEN HTTP_404 ELSE HTTP_200)

\* on 30 December a search returned a contact born on 6 January and left out
\* one born on 29 December
C20_Witness ==
  /\ last.op = "get_upcoming_birthdays"
  /\ today.month = 12 /\ AddDays(today, 7).month = 1
  /\ \E row \in RowsOf(last.ret) : row.birthday.month = 1 /\ row.birthday.day = AddDays(today, 7).day
  /\ \E i \in DOMAIN contacts : contacts[i] \notin RowsOf(last.ret)

\* the contact routes that take the caller as user and are not role-guarded
UserRoutes ==
  {"get_contacts", "get_contact", "create_contact", "update_contact", "delete_contact",
   "get_upcoming_birthdays"}

\* the rows of a table that a user does not own
OthersRows(db, user) == {db[i] : i \in {j \in DOMAIN db : db[j].user # user}}

\* a step of get_contacts, get_contact, update_contact or delete_contact for a
\* user leaves the contacts of every other user present and as they were, and
\* answers not found for an id another user owns
C21_Step ==
  last'.op \in {"get_contacts", "get_contact", "update_contact", "delete_contact"} =>
    /\ OthersRows(contacts', last'.arg.user) = OthersRows(contacts, last'.arg.user)
    /\ \A i \in DOMAIN contacts : contacts[i].user # last'.arg.user =>
         (i \in DOMAIN contacts' /\ contacts'[i] = contacts[i])
    /\ ( /\ last'.op \in {"get_contact", "update_contact", "delete_contact"}
         /\ last'.arg.contact_id \in DOMAIN contacts
         /\ contacts[last'.arg.contact_id].user # last'.arg.user )
       => (last'.ret.code = HTTP_404 /\ last'.ret.rows = <<>>)

\* no route but the role-guarded get_all_contacts returns a contact of a user
\* other than its caller
C21_Returned ==
  last.op \in UserRoutes => \A row \in RowsOf(last.ret) : row.user = last.arg.user

\* C21 (as claimed): get_contacts, get_contact, update_contact and
\* delete_contact called for a user return, modify and delete only contacts
\* that user owns: the contacts of other users stay present and unchanged and
\* their ids are reported as not found; only the role-guarded get_all_contacts
\* returns contacts across owners.
C21_OwnerScoped == [][C21_Step]_vars /\ []C21_Returned

\* ------------------------------------------------------------------------
\* What the cache holds (checked under Spec)
\* ------------------------------------------------------------------------
\* the step writes a new value under key k
Writes(k) ==
  /\ k \in DOMAIN cache'
  /\ k \in DOMAIN cache => cache'[k].blob # cache[k].blob

C22_Step ==
  /\ \A r \in Slots :
       /\ (Leaves(r, "query") /\ req'[r].pc = "set") =>
            /\ req'[r].user = store[req[r].email]
            /\ req'[r].user.email = req[r].email
       /\ (Leaves(r, "upload") /\ req'[r].pc = "avset") =>
            /\ req'[r].user = store'[req[r].email]
            /\ req'[r].user.email = req[r].email
       /\ req[r].pc \in {"set", "expire", "avset", "avexpire"} /\ req'[r].pc # "done"
            => req'[r].user = req[r].user
  /\ \A k \in Emails : Writes(k) =>
       \E r \in Slots :
         /\ req[r].pc \in {"set", "avset"} /\ req'[r].pc # req[r].pc
         /\ req[r].email = k
         /\ cache'[k].blob = pickle_dumps(req[r].user)

C22_Inv ==
  /\ \A k \in DOMAIN cache : k \in Emails /\ pickle_loads(cache[k].blob).email = k
  /\ \A r \in Slots :
       /\ req[r].pc \in {"set", "expire", "avset", "avexpire"} =>
            /\ req[r].user.email = req[r].email
            /\ req[r].sver = muts => req[r].user = store[req[r].email]
       /\ req[r].authed => req[r].user.email = req[r].email
  /\ \A k \in Emails : (Presented(k) /\ Result.authed) =>
       /\ Result.user.email = k
       /\ Result.hit => (k \in DOMAIN cache /\ Result.user = pickle_loads(cache[k].blob))

\* C22: in every reachable state the cache entry under email e is a snapshot of
\* a user with email e, equal to the store's record for e at the store read
\* that preceded the write of the entry; so get_current_user, from the cache or
\* from the store, returns a user whose email is the subject of the token.
C22_SnapshotOfSubject == [][C22_Step]_vars /\ []C22_Inv

\* a user created after the start was cached on a miss, and a later request
\* with that user's token was served the snapshot from the cache
C22_Witness ==
  \E k \in Emails \ Registered :
    /\ Presented(k) /\ Result.hit /\ Result.authed
    /\ Result.user.email = k /\ Result.user = store[k]
    /\ \E o \in Slots \ {last.r} : /\ req[o].email = k /\ req[o].lookups = 1
                                   /\ req[o].sets = 1 /\ req[o].authed

====
